---- MODULE Spec2Model ----
(***************************************************************************)
(* SelfStorage: rental lifecycle, pricing and reminder scheduler.          *)
(*                                                                         *)
(* Units.  Money is an integer number of 0.01 currency units, box          *)
(* dimensions and volumes are integers in 0.01 m / 0.01 m3, a discount is  *)
(* an integer number of hundredths (Decimal(percent) / Decimal("100")).    *)
(* Calendar dates are integer day numbers; datetimes (timezone.now(), a    *)
(* promo code's window) are integer clock ticks, TicksPerDay to a day.     *)
(***************************************************************************)
EXTENDS Integers, Sequences, FiniteSets, TLC

VARIABLES now, rentals, promos, emails, outbox, probe

storeVars == <<now, rentals, promos, emails, outbox>>
vars == <<now, rentals, promos, emails, outbox, probe>>

(***************************************************************************)
(* Bounds of the model.                                                    *)
(***************************************************************************)
MaxRentals == 2
MaxDated == 1
MaxPriced == 1
PromoEnd == 2
MaxNow == 3
TicksPerDay == 2
MaxDim == 12
MaxEnd == 2
MaxToday == 184
MaxDay == 2
MaxBatch == 2
MaxLog == 2
MaxRequests == 2
MaxGraceDay == 30
MaxWorkers == 2

(***************************************************************************)
(* Program constants.                                                      *)
(***************************************************************************)
PRICE_PER_M3_PER_MONTH == 75000
DEFAULT_RENTAL_DAYS == 30
DEFAULT_GRACE_MONTHS == 6
DAYS_PER_GRACE_MONTH == 30

None == "None"
NoDate == -100000

ACTIVE == "active"
OVERDUE == "overdue"
CLOSED == "closed"
LOST == "lost"
Status == {ACTIVE, OVERDUE, CLOSED, LOST}

(***************************************************************************)
(* Decimal.quantize(Decimal("0.01")) under the default context rounding    *)
(* (ROUND_HALF_EVEN): n / d for n >= 0, d > 0, rounded to an integer.      *)
(***************************************************************************)
quantize(n, d) ==
    LET q == n \div d
        r == n % d
    IN  IF 2 * r < d THEN q
        ELSE IF 2 * r > d THEN q + 1
        ELSE IF q % 2 = 0 THEN q ELSE q + 1

localdate(t) == t \div TicksPerDay

(***************************************************************************)
(* Box.volume_m3 and Box.price_per_month; dims = <<length, width, height>> *)
(* in 0.01 m.  The product of the three sides is in 1e-6 m3.               *)
(***************************************************************************)
volume_m3(dims) == quantize(dims[1] * dims[2] * dims[3], 10000)

price_per_month(dims) == quantize(volume_m3(dims) * PRICE_PER_M3_PER_MONTH, 100)

(* is_valid_now with the active flag forgotten. *)
is_valid_now_window_only(promo, t) ==
    promo.starts_at <= t /\ t <= promo.ends_at

(***************************************************************************)
(* PromoCode.is_valid_now                                                  *)
(***************************************************************************)
is_valid_now(promo, t) ==
    promo.is_active /\ promo.starts_at <= t /\ t <= promo.ends_at

(***************************************************************************)
(* views.index and views.boxes: the minimum monthly price of a listing,    *)
(* boxes being the rows of values_list("length_m", "width_m", "height_m"); *)
(* None for an empty listing.  The inline formula multiplies the three     *)
(* sides and the rate and rounds once; the rate, a whole number of         *)
(* currency units, is taken in 0.1 units to keep the product in range.     *)
(***************************************************************************)
listing_price(dims) ==
    quantize(dims[1] * dims[2] * dims[3] * (PRICE_PER_M3_PER_MONTH \div 1000), 1000)

min_price(boxes) ==
    IF boxes = <<>> THEN None
    ELSE LET prices == {listing_price(boxes[i]) : i \in 1..Len(boxes)}
         IN  CHOOSE m \in prices : \A x \in prices : m <= x

(***************************************************************************)
(* Fixtures: the active boxes with their sides, the users with their       *)
(* e-mail addresses, the one active privacy document.                      *)
(***************************************************************************)
Boxes == {"b1", "b2"}
BoxDims(b) == IF b = "b1" THEN <<200, 200, 200>> ELSE <<100, 100, 1>>

Users == {"u1", "u2"}
UserEmail(u) == IF u = "u1" THEN "u1@example.com" ELSE ""

PromoCodes == {"SALE15"}

(***************************************************************************)
(* Rental: the model's field defaults (a Rental() built with no arguments  *)
(* at date d by user u for box b).                                         *)
(***************************************************************************)
Rental(u, b, d) ==
    [user |-> u, box |-> b,
     start_date |-> d, end_date |-> NoDate,
     status |-> ACTIVE,
     pickup_from_home |-> TRUE, pickup_address |-> "",
     personal_data_consent |-> FALSE, consent_document |-> None,
     promo_code |-> None,
     overdue_grace_months |-> DEFAULT_GRACE_MONTHS,
     base_price_per_month |-> 0, final_price_per_month |-> 0]

Busy == {ACTIVE, OVERDUE}

(* clean without the comparison of the end date with the start date. *)
clean_any_dates(inst, pk) ==
    /\ inst.personal_data_consent
    /\ inst.consent_document # None
    /\ ~(inst.pickup_from_home /\ inst.pickup_address = "")
    /\ ~\E k \in 1..Len(rentals) :
          /\ rentals[k].box = inst.box
          /\ rentals[k].status \in Busy
          /\ k # pk

(***************************************************************************)
(* Rental.clean: TRUE iff no ValidationError is raised for instance inst   *)
(* with primary key pk (0 for an instance not yet in the store).           *)
(***************************************************************************)
clean(inst, pk) ==
    /\ inst.personal_data_consent
    /\ inst.consent_document # None
    /\ ~(inst.pickup_from_home /\ inst.pickup_address = "")
    /\ ~(inst.end_date # NoDate /\ inst.end_date < inst.start_date)
    /\ ~\E k \in 1..Len(rentals) :
          /\ rentals[k].box = inst.box
          /\ rentals[k].status \in Busy
          /\ k # pk

_default_end_date(inst) == inst.start_date + DEFAULT_RENTAL_DAYS

(* recalc_prices with the percentage added to the price, not taken off. *)
recalc_prices_surcharge(inst, ps, t) ==
    LET base == price_per_month(BoxDims(inst.box))
        discount == IF inst.promo_code # None /\ is_valid_now(ps[inst.promo_code], t)
                    THEN ps[inst.promo_code].discount_percent
                    ELSE 0
    IN  [inst EXCEPT !.base_price_per_month = base,
                     !.final_price_per_month = quantize(base * (100 + discount), 100)]

(* recalc_prices with the discount of any promo code, valid or not. *)
recalc_prices_any_promo(inst, ps, t) ==
    LET base == price_per_month(BoxDims(inst.box))
        discount == IF inst.promo_code # None
                    THEN ps[inst.promo_code].discount_percent
                    ELSE 0
    IN  [inst EXCEPT !.base_price_per_month = base,
                     !.final_price_per_month = quantize(base * (100 - discount), 100)]

(***************************************************************************)
(* Rental.recalc_prices at clock t, ps being the promo code table.         *)
(***************************************************************************)
recalc_prices(inst, ps, t) ==
    LET base == price_per_month(BoxDims(inst.box))
        discount == IF inst.promo_code # None /\ is_valid_now(ps[inst.promo_code], t)
                    THEN ps[inst.promo_code].discount_percent
                    ELSE 0
    IN  [inst EXCEPT !.base_price_per_month = base,
                     !.final_price_per_month = quantize(base * (100 - discount), 100)]

(* update_overdue_statuses that derives the status from the date alone: a  *)
(* rental not yet past its end date is active again.                       *)
update_overdue_statuses_by_date(status, end_date, grace, today) ==
    IF end_date = NoDate THEN status
    ELSE IF status \in {CLOSED, LOST} THEN status
    ELSE IF today > end_date
         THEN IF today > end_date + DAYS_PER_GRACE_MONTH * grace THEN LOST ELSE OVERDUE
         ELSE ACTIVE

(* update_overdue_statuses with the end date itself counted as overdue. *)
update_overdue_statuses_from_end_date(status, end_date, grace, today) ==
    IF end_date = NoDate THEN status
    ELSE IF status \in {CLOSED, LOST} THEN status
    ELSE IF today >= end_date
         THEN IF today > end_date + DAYS_PER_GRACE_MONTH * grace THEN LOST ELSE OVERDUE
         ELSE status

(* update_overdue_statuses without the early return for closed and lost. *)
update_overdue_statuses_no_terminal(status, end_date, grace, today) ==
    IF end_date = NoDate THEN status
    ELSE IF today > end_date
         THEN IF today > end_date + DAYS_PER_GRACE_MONTH * grace THEN LOST ELSE OVERDUE
         ELSE status

(* update_overdue_statuses that marks lost only a rental already overdue. *)
update_overdue_statuses_one_step(status, end_date, grace, today) ==
    IF end_date = NoDate THEN status
    ELSE IF status \in {CLOSED, LOST} THEN status
    ELSE IF status = OVERDUE /\ today > end_date + DAYS_PER_GRACE_MONTH * grace THEN LOST
    ELSE IF today > end_date THEN OVERDUE
    ELSE status

(***************************************************************************)
(* Rental.update_overdue_statuses: the status after the step, for a rental *)
(* with the given status, end date and grace months, at date today.        *)
(***************************************************************************)
update_overdue_statuses(status, end_date, grace, today) ==
    IF end_date = NoDate THEN status
    ELSE IF status \in {CLOSED, LOST} THEN status
    ELSE IF today > end_date
         THEN IF today > end_date + DAYS_PER_GRACE_MONTH * grace THEN LOST ELSE OVERDUE
         ELSE status

(* save without the call of update_overdue_statuses. *)
save_prices_only(inst, ps, t) ==
    recalc_prices(IF inst.end_date = NoDate
                  THEN [inst EXCEPT !.end_date = _default_end_date(inst)]
                  ELSE inst, ps, t)

(***************************************************************************)
(* Rental.save: the row that is written for instance inst at clock t.      *)
(***************************************************************************)
save(inst, ps, t) ==
    LET dated == IF inst.end_date = NoDate
                 THEN [inst EXCEPT !.end_date = _default_end_date(inst)]
                 ELSE inst
        priced == recalc_prices(dated, ps, t)
    IN  [priced EXCEPT !.status = update_overdue_statuses(
                           priced.status, priced.end_date,
                           priced.overdue_grace_months, localdate(t))]

(* super().save(): insert a new row (pk = 0) or rewrite row pk. *)
Persist(pk, row) ==
    IF pk = 0 THEN Append(rentals, row) ELSE [rentals EXCEPT ![pk] = row]

(***************************************************************************)
(* The reminder scheduler (management command send_rental_notifications).  *)
(* An EmailNotification row is [rental, kind, subject, to_email, is_sent];  *)
(* the subject is <<text, n>>, n being the number the f-string embeds.     *)
(* Every rule is computed against the log es as it stands when the rule    *)
(* runs, at clock t.                                                       *)
(***************************************************************************)
BEFORE_RULES == <<[days |-> 30, kind |-> "before_30"],
                  [days |-> 14, kind |-> "before_14"],
                  [days |-> 7, kind |-> "before_7"],
                  [days |-> 3, kind |-> "before_3"]>>
BEFORE_KINDS == {"before_30", "before_14", "before_7", "before_3"}
OVERDUE_INFO == "overdue_info"
OVERDUE_MONTHLY == "overdue_monthly"
MONTHLY_PERIOD == 30

(* Rental.Meta.ordering = ["-created_at"]: the i-th row a queryset yields. *)
ByNewest(i) == Len(rentals) + 1 - i

(* The row _create_and_send creates; sent_at and body, which no rule reads, *)
(* are left out.                                                           *)
Row(pk, kind, n, t) ==
    [rental |-> pk, kind |-> kind, subject |-> <<kind, n>>,
     to_email |-> UserEmail(rentals[pk].user), is_sent |-> TRUE]

AlreadySent(es, pk, kind) ==
    \E j \in 1..Len(es) : es[j].rental = pk /\ es[j].kind = kind

(* One rule of _send_before_end that creates a row whatever the log holds. *)
BeforeEndRows_no_log_check(es, rule, t) ==
    LET cand == [i \in 1..Len(rentals) |-> Row(ByNewest(i), rule.kind, rule.days, t)]
        Due(c) == /\ rentals[c.rental].status = ACTIVE
                  /\ rentals[c.rental].end_date = localdate(t) + rule.days
                  /\ c.to_email # ""
    IN  SelectSeq(cand, Due)

(* One rule of _send_before_end that takes rentals of every open status. *)
BeforeEndRows_any_status(es, rule, t) ==
    LET cand == [i \in 1..Len(rentals) |-> Row(ByNewest(i), rule.kind, rule.days, t)]
        Due(c) == /\ rentals[c.rental].status \in {ACTIVE, OVERDUE}
                  /\ rentals[c.rental].end_date = localdate(t) + rule.days
                  /\ ~AlreadySent(es, c.rental, rule.kind)
                  /\ c.to_email # ""
    IN  SelectSeq(cand, Due)

(* One rule of _send_before_end that returns at the first rental with no   *)
(* e-mail address instead of going on to the next one.                     *)
BeforeEndRows_stop_at_no_email(es, rule, t) ==
    LET cand == [i \in 1..Len(rentals) |-> Row(ByNewest(i), rule.kind, rule.days, t)]
        InQs(c) == /\ rentals[c.rental].status = ACTIVE
                   /\ rentals[c.rental].end_date = localdate(t) + rule.days
                   /\ ~AlreadySent(es, c.rental, rule.kind)
        qs == SelectSeq(cand, InQs)
        stop == IF \E i \in 1..Len(qs) : qs[i].to_email = ""
                THEN CHOOSE i \in 1..Len(qs) :
                        /\ qs[i].to_email = ""
                        /\ \A k \in 1..(i - 1) : qs[k].to_email # ""
                ELSE Len(qs) + 1
    IN  SubSeq(qs, 1, stop - 1)

(* The rows one rule of _send_before_end creates, in order. *)
BeforeEndRows(es, rule, t) ==
    LET cand == [i \in 1..Len(rentals) |-> Row(ByNewest(i), rule.kind, rule.days, t)]
        Due(c) == /\ rentals[c.rental].status = ACTIVE
                  /\ rentals[c.rental].end_date = localdate(t) + rule.days
                  /\ ~AlreadySent(es, c.rental, rule.kind)
                  /\ c.to_email # ""
    IN  SelectSeq(cand, Due)

(* The loop over the rules of _send_before_end from the n-th rule on, acc  *)
(* being the rows created so far.                                          *)
RECURSIVE before_end_loop(_, _, _, _)
before_end_loop(n, es, acc, t) ==
    IF n > Len(BEFORE_RULES) THEN acc
    ELSE before_end_loop(n + 1, es,
             acc \o BeforeEndRows(es \o acc, BEFORE_RULES[n], t), t)

_send_before_end(es, t) == before_end_loop(1, es, <<>>, t)

(* _send_overdue_info that looks for a row of any kind, not of its own. *)
_send_overdue_info_any_kind(es, t) ==
    LET cand == [i \in 1..Len(rentals) |-> Row(ByNewest(i), OVERDUE_INFO, 0, t)]
        Due(c) == /\ rentals[c.rental].status = OVERDUE
                  /\ ~\E j \in 1..Len(es) :
                        es[j].rental = c.rental /\ es[j].kind \notin BEFORE_KINDS
                  /\ c.to_email # ""
    IN  SelectSeq(cand, Due)

_send_overdue_info(es, t) ==
    LET cand == [i \in 1..Len(rentals) |-> Row(ByNewest(i), OVERDUE_INFO, 0, t)]
        Due(c) == /\ rentals[c.rental].status = OVERDUE
                  /\ ~AlreadySent(es, c.rental, OVERDUE_INFO)
                  /\ c.to_email # ""
    IN  SelectSeq(cand, Due)

(* The body of the loop of _send_overdue_monthly with the 30-day test      *)
(* dropped: a reminder on every overdue day.                               *)
overdue_monthly_body_every_day(es, pk, t) ==
    LET rental == rentals[pk]
        days_overdue == localdate(t) - rental.end_date
        row == Row(pk, OVERDUE_MONTHLY, days_overdue \div MONTHLY_PERIOD, t)
    IN  IF rental.end_date = NoDate THEN <<>>
        ELSE IF days_overdue <= 0 THEN <<>>
        ELSE IF \E j \in 1..Len(es) : /\ es[j].rental = pk
                                      /\ es[j].kind = OVERDUE_MONTHLY
                                      /\ es[j].subject = row.subject THEN <<>>
        ELSE IF row.to_email = "" THEN <<>>
        ELSE <<row>>

(* The body of the loop of _send_overdue_monthly with no look at the log. *)
overdue_monthly_body_no_marker(es, pk, t) ==
    LET rental == rentals[pk]
        days_overdue == localdate(t) - rental.end_date
        row == Row(pk, OVERDUE_MONTHLY, days_overdue \div MONTHLY_PERIOD, t)
    IN  IF rental.end_date = NoDate THEN <<>>
        ELSE IF days_overdue <= 0 THEN <<>>
        ELSE IF days_overdue % MONTHLY_PERIOD # 0 THEN <<>>
        ELSE IF row.to_email = "" THEN <<>>
        ELSE <<row>>

(* The body of the loop of _send_overdue_monthly that sends from the       *)
(* second 30-day boundary on.                                              *)
overdue_monthly_body_from_second(es, pk, t) ==
    LET rental == rentals[pk]
        days_overdue == localdate(t) - rental.end_date
        row == Row(pk, OVERDUE_MONTHLY, days_overdue \div MONTHLY_PERIOD, t)
    IN  IF rental.end_date = NoDate THEN <<>>
        ELSE IF days_overdue <= MONTHLY_PERIOD THEN <<>>
        ELSE IF days_overdue % MONTHLY_PERIOD # 0 THEN <<>>
        ELSE IF \E j \in 1..Len(es) : /\ es[j].rental = pk
                                      /\ es[j].kind = OVERDUE_MONTHLY
                                      /\ es[j].subject = row.subject THEN <<>>
        ELSE IF row.to_email = "" THEN <<>>
        ELSE <<row>>

(* The body of the loop of _send_overdue_monthly for overdue rental pk:    *)
(* the row it creates, or none.                                            *)
overdue_monthly_body(es, pk, t) ==
    LET rental == rentals[pk]
        days_overdue == localdate(t) - rental.end_date
        row == Row(pk, OVERDUE_MONTHLY, days_overdue \div MONTHLY_PERIOD, t)
    IN  IF rental.end_date = NoDate THEN <<>>
        ELSE IF days_overdue <= 0 THEN <<>>
        ELSE IF days_overdue % MONTHLY_PERIOD # 0 THEN <<>>
        ELSE IF \E j \in 1..Len(es) : /\ es[j].rental = pk
                                      /\ es[j].kind = OVERDUE_MONTHLY
                                      /\ es[j].subject = row.subject THEN <<>>
        ELSE IF row.to_email = "" THEN <<>>
        ELSE <<row>>

(* The loop of _send_overdue_monthly from the i-th rental of the queryset  *)
(* on, acc being the rows created so far.                                  *)
RECURSIVE overdue_monthly_loop(_, _, _, _)
overdue_monthly_loop(i, es, acc, t) ==
    IF i > Len(rentals) THEN acc
    ELSE overdue_monthly_loop(i + 1, es,
             IF rentals[ByNewest(i)].status = OVERDUE
             THEN acc \o overdue_monthly_body(es \o acc, ByNewest(i), t)
             ELSE acc, t)

_send_overdue_monthly(es, t) == overdue_monthly_loop(1, es, <<>>, t)

(* The rules in the order handle calls them. *)
HANDLE_ORDER == <<"before_end", "overdue_info", "overdue_monthly">>

RuleRows(rule, es, t) ==
    CASE rule = "before_end" -> _send_before_end(es, t)
      [] rule = "overdue_info" -> _send_overdue_info(es, t)
      [] rule = "overdue_monthly" -> _send_overdue_monthly(es, t)

(* The calls of handle from the n-th of the given order on, acc being the  *)
(* rows created so far.                                                    *)
RECURSIVE handle_loop(_, _, _, _, _)
handle_loop(order, n, es, acc, t) ==
    IF n > Len(order) THEN acc
    ELSE handle_loop(order, n + 1, es, acc \o RuleRows(order[n], es \o acc, t), t)

(* The rows an invocation creates when it calls the rules in the given     *)
(* order and no send_mail raises.                                          *)
RunRules(order, es, t) == handle_loop(order, 1, es, <<>>, t)

(* An invocation whose send_mail swallows the delivery error: the failed   *)
(* item is logged and the run goes on.                                     *)
Outcome_fail_silently(order, es, box, t, fail) ==
    LET rows == RunRules(order, es, t)
    IN  [emails |-> es \o rows,
         outbox |-> box \cup {Len(es) + i : i \in (1..Len(rows)) \ {fail}}]

(* What an invocation leaves: the log and the mails delivered.  fail = 0:  *)
(* every send_mail returns; fail = k > 0: the k-th send_mail of the        *)
(* invocation raises, after its row was created, and the invocation ends   *)
(* there.                                                                  *)
Outcome(order, es, box, t, fail) ==
    LET rows == RunRules(order, es, t)
        made == IF fail = 0 \/ fail > Len(rows) THEN Len(rows) ELSE fail
        sent == IF fail = 0 \/ fail > Len(rows) THEN Len(rows) ELSE fail - 1
    IN  [emails |-> es \o SubSeq(rows, 1, made),
         outbox |-> box \cup {Len(es) + i : i \in 1..sent}]

(***************************************************************************)
(* Command.handle, run at the present clock.                               *)
(***************************************************************************)
handle(fail) ==
    LET out == Outcome(HANDLE_ORDER, emails, outbox, now, fail)
    IN  /\ fail <= Len(RunRules(HANDLE_ORDER, emails, now))
        /\ emails' = out.emails
        /\ outbox' = out.outbox
        /\ UNCHANGED <<now, rentals, promos, probe>>

(* A daily job that saves every rental before it runs the rules, so that   *)
(* the stored statuses and prices are those of the new day.                *)
crontab_refreshing(fail) ==
    /\ now' = (localdate(now) + 1) * TicksPerDay
    /\ LET out == Outcome(HANDLE_ORDER, emails, outbox, now', fail)
       IN  /\ fail <= Len(RunRules(HANDLE_ORDER, emails, now'))
           /\ emails' = out.emails
           /\ outbox' = out.outbox
    /\ rentals' = [k \in 1..Len(rentals) |-> save(rentals[k], promos, now')]
    /\ UNCHANGED <<promos, probe>>

(***************************************************************************)
(* The daily job: the next day begins and Command.handle runs.             *)
(***************************************************************************)
crontab(fail) ==
    /\ now' = (localdate(now) + 1) * TicksPerDay
    /\ LET out == Outcome(HANDLE_ORDER, emails, outbox, now', fail)
       IN  /\ fail <= Len(RunRules(HANDLE_ORDER, emails, now'))
           /\ emails' = out.emails
           /\ outbox' = out.outbox
    /\ UNCHANGED <<rentals, promos, probe>>

(***************************************************************************)
(* Command.handle as the statements of overlapping invocations interleave. *)
(* probe.run[w] is the position of invocation w: the rule it is at (1..4   *)
(* the rules of _send_before_end, 5 _send_overdue_info, 6                  *)
(* _send_overdue_monthly), the clock it read, the rows its queryset gave   *)
(* and has not yet created (rows), and for rule 6 the overdue rentals it   *)
(* has not yet looked at (pks).  Each action is one statement that reads   *)
(* or writes the store; EmailNotification.Meta declares no constraint, so  *)
(* every insert succeeds.                                                  *)
(***************************************************************************)
LAST_RULE == Len(BEFORE_RULES) + 2

Idle == [pc |-> "idle", rule |-> 0, t |-> 0, rows |-> <<>>, pks |-> <<>>]

(* handle begins: today is read. *)
Command_handle(w) ==
    /\ probe.run[w].pc = "idle"
    /\ probe' = [probe EXCEPT !.run[w] = [Idle EXCEPT !.pc = "query", !.rule = 1, !.t = now]]
    /\ UNCHANGED storeVars

(* The queryset of the rule is evaluated (the for statement runs the       *)
(* query, its Exists(already_sent) filter included).                       *)
queryset(w) ==
    LET run == probe.run[w]
    IN  /\ run.pc = "query"
        /\ probe' = [probe EXCEPT !.run[w] =
               [run EXCEPT
                   !.pc = "loop",
                   !.rows = IF run.rule <= Len(BEFORE_RULES)
                            THEN BeforeEndRows(emails, BEFORE_RULES[run.rule], run.t)
                            ELSE IF run.rule < LAST_RULE
                                 THEN _send_overdue_info(emails, run.t)
                                 ELSE <<>>,
                   !.pks = IF run.rule = LAST_RULE
                           THEN SelectSeq([i \in 1..Len(rentals) |-> ByNewest(i)],
                                          LAMBDA pk : rentals[pk].status = OVERDUE)
                           ELSE <<>>]]
        /\ UNCHANGED storeVars

(* _send_overdue_monthly looks at its next rental: the tests of the loop   *)
(* body, the exists() query of the marker included.                        *)
overdue_monthly_check(w) ==
    LET run == probe.run[w]
    IN  /\ run.pc = "loop"
        /\ run.rows = <<>>
        /\ run.pks # <<>>
        /\ probe' = [probe EXCEPT !.run[w] =
               [run EXCEPT !.rows = overdue_monthly_body(emails, Head(run.pks), run.t),
                           !.pks = Tail(run.pks)]]
        /\ UNCHANGED storeVars

(* _create_and_send for the next row: the row is inserted and the mail is  *)
(* handed to the transport.                                                *)
create_and_send(w) ==
    LET run == probe.run[w]
    IN  /\ run.pc = "loop"
        /\ run.rows # <<>>
        /\ emails' = Append(emails, Head(run.rows))
        /\ outbox' = outbox \cup {Len(emails) + 1}
        /\ probe' = [probe EXCEPT !.run[w].rows = Tail(run.rows)]
        /\ UNCHANGED <<now, rentals, promos>>

(* The loop of the rule is over: the next rule, or the end of handle. *)
next_rule(w) ==
    LET run == probe.run[w]
    IN  /\ run.pc = "loop"
        /\ run.rows = <<>>
        /\ run.pks = <<>>
        /\ probe' = [probe EXCEPT !.run[w] =
               IF run.rule = LAST_RULE
               THEN [run EXCEPT !.pc = "done"]
               ELSE [run EXCEPT !.pc = "query", !.rule = run.rule + 1]]
        /\ UNCHANGED storeVars

(* rent_box that attaches the promo code to the rental only when the code  *)
(* is valid at submission.                                                 *)
rent_box_valid_promo_only(u, b, code, addr) ==
    LET base_price == price_per_month(BoxDims(b))
        promo == IF code # "" /\ code \in DOMAIN promos /\ is_valid_now(promos[code], now)
                 THEN code ELSE None
        final_price == IF promo # None
                       THEN base_price * (100 - promos[promo].discount_percent)
                       ELSE base_price * 100
        inst == [Rental(u, b, localdate(now)) EXCEPT
                    !.pickup_address = addr,
                    !.base_price_per_month = base_price,
                    !.final_price_per_month = quantize(final_price, 100),
                    !.promo_code = promo,
                    !.status = ACTIVE]
    IN  /\ rentals' = Persist(0, save(inst, promos, now))
        /\ UNCHANGED <<now, promos, emails, outbox, probe>>

(***************************************************************************)
(* views.rent_box, POST with action = "rent": user u submits the form for  *)
(* box b with promo code text code and pickup address addr.                *)
(***************************************************************************)
rent_box(u, b, code, addr) ==
    LET base_price == price_per_month(BoxDims(b))
        promo == IF code # "" /\ code \in DOMAIN promos THEN code ELSE None
        final_price == IF promo # None /\ is_valid_now(promos[promo], now)
                       THEN base_price * (100 - promos[promo].discount_percent)
                       ELSE base_price * 100
        inst == [Rental(u, b, localdate(now)) EXCEPT
                    !.pickup_address = addr,
                    !.base_price_per_month = base_price,
                    !.final_price_per_month = quantize(final_price, 100),
                    !.promo_code = promo,
                    !.status = ACTIVE]
    IN  /\ rentals' = Persist(0, save(inst, promos, now))
        /\ UNCHANGED <<now, promos, emails, outbox, probe>>

(***************************************************************************)
(* Rental.save() called on the stored row pk as it is.                     *)
(***************************************************************************)
Rental_save(pk) ==
    /\ pk \in 1..Len(rentals)
    /\ rentals' = Persist(pk, save(rentals[pk], promos, now))
    /\ UNCHANGED <<now, promos, emails, outbox, probe>>

(***************************************************************************)
(* RentalAdmin add (pk = 0) / change (pk > 0) form: the form's fields are  *)
(* put on the instance, Rental.clean validates it, Rental.save writes it.  *)
(* A form that does not validate writes nothing.                           *)
(***************************************************************************)
RentalAdmin(pk, inst) ==
    /\ pk \in 0..Len(rentals)
    /\ rentals' = IF clean(inst, pk) THEN Persist(pk, save(inst, promos, now)) ELSE rentals
    /\ UNCHANGED <<now, promos, emails, outbox, probe>>

(***************************************************************************)
(* RentalAdmin add form as two requests may interleave: request p first    *)
(* validates the form (ModelForm validation calls Rental.clean, which      *)
(* queries the store for a busy rental of the box), and in a later step    *)
(* saves it (save_model calls Rental.save).  probe.req[p] is the request's *)
(* position and the instance it carries.  Nothing between the two steps    *)
(* holds the box: Rental.Meta declares an index, no constraint.            *)
(***************************************************************************)
RentalAdmin_clean(p, inst) ==
    /\ probe.req[p].pc = "idle"
    /\ probe' = [probe EXCEPT !.req[p] =
                    [pc |-> IF clean(inst, 0) THEN "validated" ELSE "rejected",
                     inst |-> inst]]
    /\ UNCHANGED storeVars

RentalAdmin_save_model(p) ==
    /\ probe.req[p].pc = "validated"
    /\ rentals' = Persist(0, save(probe.req[p].inst, promos, now))
    /\ probe' = [probe EXCEPT !.req[p].pc = "saved"]
    /\ UNCHANGED <<now, promos, emails, outbox>>

(***************************************************************************)
(* PromoCodeAdmin change form: the active flag of promo code c is set.     *)
(***************************************************************************)
PromoCodeAdmin(c, active) ==
    /\ promos[c].is_active # active
    /\ promos' = [promos EXCEPT ![c].is_active = active]
    /\ UNCHANGED <<now, rentals, emails, outbox, probe>>

(***************************************************************************)
(* EmailNotificationAdmin add (j = 0) / change (j > 0) form: the row is    *)
(* written as submitted.                                                   *)
(***************************************************************************)
EmailNotificationAdmin(j, row) ==
    /\ j \in 0..Len(emails)
    /\ emails' = IF j = 0 THEN Append(emails, row) ELSE [emails EXCEPT ![j] = row]
    /\ UNCHANGED <<now, rentals, promos, outbox, probe>>

(***************************************************************************)
(* RentalAdmin change form of rental pk submitted as inst with row j of    *)
(* its EmailNotificationInline edited: when the rental's form validates,   *)
(* the rental is saved and the row is written as submitted.                *)
(***************************************************************************)
EmailNotificationInline(pk, inst, j, row) ==
    /\ pk \in 1..Len(rentals)
    /\ j \in 1..Len(emails)
    /\ emails[j].rental = pk
    /\ clean(inst, pk)
    /\ rentals' = Persist(pk, save(inst, promos, now))
    /\ emails' = [emails EXCEPT ![j] = row]
    /\ UNCHANGED <<now, promos, outbox, probe>>

(* Time passes. *)
Tick ==
    /\ now < MaxNow
    /\ now' = now + 1
    /\ UNCHANGED <<rentals, promos, emails, outbox, probe>>

(***************************************************************************)
(* Inputs of the forms.  A date input is <<start offset, end offset>> in   *)
(* days from today, NoDate for an end date left blank.                     *)
(***************************************************************************)
CodeInputs == {"", "SALE15", "NOSUCH"}
AddressInputs == {"", "addr"}
DateInputs == {<<0, NoDate>>, <<-30, NoDate>>, <<-31, NoDate>>, <<-211, NoDate>>,
               <<-5, 0>>, <<0, -1>>}

(* What an admin fills in on every form: consent, its document, an address. *)
Filled(r) ==
    [r EXCEPT !.personal_data_consent = TRUE,
              !.consent_document = "doc",
              !.pickup_address = "addr"]

(* The instances an add form can submit at date today. *)
AddForms(today, U, B, D, S) ==
    {[Filled(Rental(u, b, today)) EXCEPT
         !.start_date = today + d[1],
         !.end_date = IF d[2] = NoDate THEN NoDate ELSE today + d[2],
         !.status = s] : u \in U, b \in B, d \in D, s \in S}

(* The instances a change form of row pk can submit: a status is chosen. *)
ChangeForms(pk, S) ==
    {[Filled(rentals[pk]) EXCEPT !.status = s] : s \in S}

StoreInit ==
    /\ now = 0
    /\ rentals = <<>>
    /\ promos = [c \in PromoCodes |->
                    [discount_percent |-> 15, starts_at |-> 0, ends_at |-> PromoEnd,
                     is_active |-> TRUE]]
    /\ emails = <<>>
    /\ outbox = {}

Init == StoreInit /\ probe = <<>>

(***************************************************************************)
(* Spec: bookings of the boxes by one user, with and without a promo code, *)
(* the admin closing a rental, promo codes switched on and off.            *)
(***************************************************************************)
Next ==
    \/ /\ Len(rentals) < MaxRentals
       /\ \E b \in Boxes, code \in CodeInputs, addr \in AddressInputs :
             rent_box("u1", b, code, addr)
    \/ \E pk \in 1..Len(rentals) : Rental_save(pk)
    \/ \E pk \in 1..Len(rentals) : \E inst \in ChangeForms(pk, {CLOSED}) :
          RentalAdmin(pk, inst)
    \/ \E c \in PromoCodes, active \in BOOLEAN : PromoCodeAdmin(c, active)
    \/ Tick
    \/ \E fail \in 0..(6 * MaxRentals) : handle(fail)

Spec == Init /\ [][Next]_vars

(***************************************************************************)
(* SpecLifecycle: rentals of one box with start and end dates in the past  *)
(* and the future, as the days pass.                                       *)
(***************************************************************************)
NextLifecycle ==
    \/ /\ Len(rentals) < MaxDated
       /\ rent_box("u1", "b1", "", "addr")
    \/ /\ Len(rentals) < MaxDated
       /\ \E inst \in AddForms(localdate(now), {"u1"}, {"b1"}, DateInputs, {ACTIVE}) :
             RentalAdmin(0, inst)
    \/ \E pk \in 1..Len(rentals) : Rental_save(pk)
    \/ \E pk \in 1..Len(rentals) : \E inst \in ChangeForms(pk, Status) :
          RentalAdmin(pk, inst)
    \/ Tick
    \/ handle(0)

SpecLifecycle == Init /\ [][NextLifecycle]_vars

(***************************************************************************)
(* SpecPricing: rentals booked with and without a promo code, saved again, *)
(* edited, closed and reopened by the admin while the promo code is        *)
(* switched off and on and its window passes.                              *)
(***************************************************************************)
NextPricing ==
    \/ /\ Len(rentals) < MaxPriced
       /\ \E b \in Boxes, code \in CodeInputs : rent_box("u1", b, code, "addr")
    \/ \E pk \in 1..Len(rentals) : Rental_save(pk)
    \/ \E pk \in 1..Len(rentals) : \E inst \in ChangeForms(pk, {ACTIVE, CLOSED}) :
          RentalAdmin(pk, inst)
    \/ \E c \in PromoCodes, active \in BOOLEAN : PromoCodeAdmin(c, active)
    \/ Tick
    \/ handle(0)

SpecPricing == Init /\ [][NextPricing]_vars

(***************************************************************************)
(* SpecLatePromo: every rental is booked with the promo code SALE15 at a   *)
(* moment when the code is not valid (switched off, or its window over);   *)
(* afterwards the rental is saved again, closed and reopened by the admin  *)
(* while the code is switched on and off and the clock runs.               *)
(***************************************************************************)
NextLatePromo ==
    \/ /\ Len(rentals) < MaxPriced
       /\ ~is_valid_now(promos["SALE15"], now)
       /\ \E b \in Boxes : rent_box("u1", b, "SALE15", "addr")
    \/ \E pk \in 1..Len(rentals) : Rental_save(pk)
    \/ \E pk \in 1..Len(rentals) : \E inst \in ChangeForms(pk, {ACTIVE, CLOSED}) :
          RentalAdmin(pk, inst)
    \/ \E c \in PromoCodes, active \in BOOLEAN : PromoCodeAdmin(c, active)
    \/ Tick

SpecLatePromo == Init /\ [][NextLatePromo]_vars

(***************************************************************************)
(* SpecDiscount: rentals booked with and without a promo code of the       *)
(* least, the greatest or a middle discount PromoCode.discount_percent     *)
(* admits, saved again and closed while the promo code is switched off and *)
(* on and its window passes.                                               *)
(***************************************************************************)
DiscountEdges == {1, 15, 90}

InitDiscount ==
    /\ now = 0
    /\ rentals = <<>>
    /\ promos \in [PromoCodes -> [discount_percent : DiscountEdges, starts_at : {0},
                                  ends_at : {PromoEnd}, is_active : {TRUE}]]
    /\ emails = <<>>
    /\ outbox = {}
    /\ probe = <<>>

NextDiscount ==
    \/ /\ Len(rentals) < MaxPriced
       /\ \E b \in Boxes, code \in {"", "SALE15"} : rent_box("u1", b, code, "addr")
    \/ \E pk \in 1..Len(rentals) : Rental_save(pk)
    \/ \E pk \in 1..Len(rentals) : \E inst \in ChangeForms(pk, {CLOSED}) :
          RentalAdmin(pk, inst)
    \/ \E c \in PromoCodes, active \in BOOLEAN : PromoCodeAdmin(c, active)
    \/ Tick
    \/ handle(0)

SpecDiscount == InitDiscount /\ [][NextDiscount]_vars

(***************************************************************************)
(* Inputs of the reminder specifications.  With TicksPerDay ticks to a day *)
(* the daily job runs on days 1..MaxDay; the end dates are chosen so that  *)
(* the days of the model fall on, before and after the days the rules look *)
(* for.                                                                    *)
(***************************************************************************)
ReminderDates == {<<0, NoDate>>, <<0, 4>>, <<0, 0>>}
OverdueDates == {<<-100, -29>>, <<-100, -59>>}
FailInputs == 0..2

(* The instances a change form of row pk can submit at date today: an end  *)
(* date is entered.                                                        *)
EndDateForms(pk, today, E) ==
    {[Filled(rentals[pk]) EXCEPT !.end_date = today + e] : e \in E}

(***************************************************************************)
(* SpecDaily: one rental that ends in a few days, saved, closed, reopened  *)
(* and given a new end date by the admin, while the reminder job runs at   *)
(* the start of every day and is run again by hand.                        *)
(***************************************************************************)
NextDaily ==
    \/ /\ Len(rentals) < MaxDated
       /\ \E inst \in AddForms(localdate(now), {"u1"}, {"b1"}, ReminderDates, {ACTIVE}) :
             RentalAdmin(0, inst)
    \/ \E pk \in 1..Len(rentals) : Rental_save(pk)
    \/ \E pk \in 1..Len(rentals) : \E inst \in ChangeForms(pk, {ACTIVE, CLOSED}) :
          RentalAdmin(pk, inst)
    \/ \E pk \in 1..Len(rentals) : \E inst \in EndDateForms(pk, localdate(now), {3}) :
          RentalAdmin(pk, inst)
    \/ /\ localdate(now) < MaxDay
       /\ \E fail \in FailInputs : crontab(fail)
    \/ \E fail \in FailInputs : handle(fail)

SpecDaily == Init /\ [][NextDaily]_vars

(***************************************************************************)
(* SpecOverdue: one rental whose end date passed a month or two ago, with  *)
(* the same admin and the same job.                                        *)
(***************************************************************************)
NextOverdue ==
    \/ /\ Len(rentals) < MaxDated
       /\ \E inst \in AddForms(localdate(now), {"u1"}, {"b1"}, OverdueDates, {ACTIVE}) :
             RentalAdmin(0, inst)
    \/ \E pk \in 1..Len(rentals) : Rental_save(pk)
    \/ \E pk \in 1..Len(rentals) : \E inst \in ChangeForms(pk, {CLOSED}) :
          RentalAdmin(pk, inst)
    \/ \E pk \in 1..Len(rentals) : \E inst \in EndDateForms(pk, localdate(now), {-30}) :
          RentalAdmin(pk, inst)
    \/ /\ localdate(now) < MaxDay
       /\ \E fail \in FailInputs : crontab(fail)
    \/ \E fail \in FailInputs : handle(fail)

SpecOverdue == Init /\ [][NextOverdue]_vars

(***************************************************************************)
(* SpecBatch: two rentals, booked on the site by the user with an e-mail   *)
(* address (box b1) and by the user without one (box b2), ending in 30     *)
(* days, or entered by the admin with an end date already past (stored     *)
(* overdue at once); the admin closes them and sets their end date four    *)
(* days ahead, so that one invocation of the job, daily or by hand, finds  *)
(* several rentals and several rules to serve.  The days run to the clock  *)
(* horizon MaxNow.                                                         *)
(***************************************************************************)
NextBatch ==
    \/ /\ Len(rentals) < MaxBatch
       /\ \E ub \in {<<"u1", "b1">>, <<"u2", "b2">>} : rent_box(ub[1], ub[2], "", "addr")
    \/ /\ Len(rentals) < MaxBatch
       /\ \E inst \in AddForms(localdate(now), {"u1"}, {"b2"}, {<<-5, -1>>}, {ACTIVE}) :
             RentalAdmin(0, inst)
    \/ \E pk \in 1..Len(rentals) : \E inst \in ChangeForms(pk, {CLOSED}) :
          RentalAdmin(pk, inst)
    \/ \E pk \in 1..Len(rentals) : \E inst \in EndDateForms(pk, localdate(now), {4}) :
          RentalAdmin(pk, inst)
    \/ /\ (localdate(now) + 1) * TicksPerDay <= MaxNow
       /\ \E fail \in FailInputs : crontab(fail)
    \/ \E fail \in FailInputs : handle(fail)

SpecBatch == Init /\ [][NextBatch]_vars

(***************************************************************************)
(* SpecOrder: the daily job with the three calls of handle made in the     *)
(* order probe.order, every order of the three, over rentals the admin     *)
(* enters (three days from their end tomorrow, or a month overdue          *)
(* tomorrow), saves and closes.                                            *)
(***************************************************************************)
Orders ==
    {p \in [1..3 -> {"before_end", "overdue_info", "overdue_monthly"}] :
        \A i, j \in 1..3 : p[i] = p[j] => i = j}

InitOrder == StoreInit /\ probe \in {[order |-> p] : p \in Orders}

Apply_RunRules(fail) ==
    /\ now' = (localdate(now) + 1) * TicksPerDay
    /\ LET out == Outcome(probe.order, emails, outbox, now', fail)
       IN  /\ fail <= Len(RunRules(probe.order, emails, now'))
           /\ emails' = out.emails
           /\ outbox' = out.outbox
    /\ UNCHANGED <<rentals, promos, probe>>

NextOrder ==
    \/ /\ Len(rentals) < MaxBatch
       /\ \E inst \in AddForms(localdate(now), {"u1"}, Boxes,
                                {<<0, 4>>, <<-100, -29>>}, {ACTIVE}) :
             RentalAdmin(0, inst)
    \/ \E pk \in 1..Len(rentals) : Rental_save(pk)
    \/ \E pk \in 1..Len(rentals) : \E inst \in ChangeForms(pk, {CLOSED}) :
          RentalAdmin(pk, inst)
    \/ /\ localdate(now) < MaxDay
       /\ \E fail \in FailInputs : Apply_RunRules(fail)

SpecOrder == InitOrder /\ [][NextOrder]_vars

(***************************************************************************)
(* SpecLog: a booked rental, the job run by hand and daily, and the admin  *)
(* at the notification log: a row entered by hand (is_sent at the model's  *)
(* default, false), a row's is_sent box unticked, a row's address retyped. *)
(***************************************************************************)
LogAddForms ==
    {[rental |-> pk, kind |-> "pickup_qr", subject |-> <<"pickup_qr", 0>>,
      to_email |-> UserEmail(rentals[pk].user), is_sent |-> FALSE] :
        pk \in 1..Len(rentals)}

LogChangeForms(j) ==
    {[emails[j] EXCEPT !.is_sent = FALSE], [emails[j] EXCEPT !.to_email = "other@example.com"]}

NextLog ==
    \/ /\ Len(rentals) < MaxDated
       /\ rent_box("u1", "b1", "", "addr")
    \/ /\ Len(emails) < MaxLog
       /\ \E row \in LogAddForms : EmailNotificationAdmin(0, row)
    \/ \E j \in 1..Len(emails) : \E row \in LogChangeForms(j) :
          EmailNotificationAdmin(j, row)
    \/ \E pk \in 1..Len(rentals) : \E inst \in ChangeForms(pk, {ACTIVE}) :
          \E j \in 1..Len(emails) : \E row \in LogChangeForms(j) :
             EmailNotificationInline(pk, inst, j, row)
    \/ /\ localdate(now) < MaxDay
       /\ \E fail \in FailInputs : crontab(fail)
    \/ \E fail \in FailInputs : handle(fail)

SpecLog == Init /\ [][NextLog]_vars

(***************************************************************************)
(* SpecFair: rentals are entered (ending today, tomorrow, in 30 days, or   *)
(* with the end date already past), and after that nothing touches them:   *)
(* only the daily job runs, every day of the model's days (weak fairness   *)
(* of the job: the scheduler's cron line starts it every day).             *)
(***************************************************************************)
FairDates == {<<0, 0>>, <<0, 1>>, <<0, NoDate>>, <<-5, -1>>, <<-100, -29>>}

DailyJob ==
    /\ localdate(now) < MaxDay
    /\ \E fail \in FailInputs : crontab(fail)

NextFair ==
    \/ /\ Len(rentals) < MaxDated
       /\ \E inst \in AddForms(localdate(now), Users, Boxes, FairDates, {ACTIVE}) :
             RentalAdmin(0, inst)
    \/ DailyJob

SpecFair == Init /\ [][NextFair]_vars /\ WF_vars(DailyJob)

(***************************************************************************)
(* SpecGrace: a rental entered when its end date is 150 or 180 days past   *)
(* (stored overdue: the grace window of 180 days has not ended), saved     *)
(* again or not, while the job runs every day of the next MaxGraceDay days *)
(* and by hand.                                                            *)
(***************************************************************************)
GraceDates == {<<-200, -150>>, <<-200, -180>>}

NextGrace ==
    \/ /\ Len(rentals) < MaxDated
       /\ \E inst \in AddForms(localdate(now), {"u1"}, {"b1"}, GraceDates, {ACTIVE}) :
             RentalAdmin(0, inst)
    \/ \E pk \in 1..Len(rentals) : Rental_save(pk)
    \/ /\ localdate(now) < MaxGraceDay
       /\ crontab(0)
    \/ handle(0)

SpecGrace == Init /\ [][NextGrace]_vars

(***************************************************************************)
(* SpecOverlap: a rental that ends in 30 days, or one 30 days overdue, is  *)
(* entered, and MaxWorkers invocations of the job run on that day, each    *)
(* once, their statements interleaving freely.                             *)
(***************************************************************************)
Workers == 1..MaxWorkers

InitOverlap == StoreInit /\ probe = [run |-> [w \in Workers |-> Idle]]

NextOverlap ==
    \/ /\ Len(rentals) < MaxDated
       /\ \E inst \in AddForms(localdate(now), {"u1"}, {"b1"},
                                {<<0, NoDate>>, <<-100, -30>>}, {ACTIVE}) :
             RentalAdmin(0, inst)
    \/ \E w \in Workers : Command_handle(w)
    \/ \E w \in Workers : queryset(w)
    \/ \E w \in Workers : overdue_monthly_check(w)
    \/ \E w \in Workers : create_and_send(w)
    \/ \E w \in Workers : next_rule(w)

SpecOverlap == InitOverlap /\ [][NextOverlap]_vars

(***************************************************************************)
(* SpecRace: MaxRequests admin add forms for the boxes, submitted at the   *)
(* same time by two admins; the steps of the requests interleave freely    *)
(* while the clock runs.                                                   *)
(***************************************************************************)
Requests == 1..MaxRequests

InitRace ==
    /\ StoreInit
    /\ probe = [req |-> [p \in Requests |->
                            [pc |-> "idle", inst |-> Filled(Rental("u1", "b1", 0))]]]

NextRace ==
    \/ \E p \in Requests :
          \E inst \in AddForms(localdate(now), Users, Boxes, {<<0, NoDate>>}, {ACTIVE}) :
             RentalAdmin_clean(p, inst)
    \/ \E p \in Requests : RentalAdmin_save_model(p)
    \/ Tick

SpecRace == InitRace /\ [][NextRace]_vars

(***************************************************************************)
(* SpecStatus: Rental.update_overdue_statuses and Rental.save applied, up  *)
(* to twice, to one rental instance at one date, for every status, end     *)
(* date, grace and date of the input sets.  probe.init is the status the   *)
(* instance starts with, probe.before the status before the last step,     *)
(* probe.first the status after the first step.                            *)
(***************************************************************************)
GraceInputs == {0, 1, DEFAULT_GRACE_MONTHS}

StatusProbes ==
    {[pc |-> 0, ops |-> <<>>, today |-> d, init |-> s, before |-> s, first |-> s,
      inst |-> [Filled(Rental("u1", "b1", 0)) EXCEPT
                   !.status = s, !.end_date = e, !.overdue_grace_months = g]] :
        s \in Status, e \in {NoDate} \cup (0..MaxEnd), g \in GraceInputs,
        d \in 0..MaxToday}

InitStatus == StoreInit /\ probe \in StatusProbes

Stepped(op, inst) ==
    [probe EXCEPT !.pc = @ + 1,
                  !.ops = Append(@, op),
                  !.before = probe.inst.status,
                  !.first = IF probe.pc = 0 THEN inst.status ELSE @,
                  !.inst = inst]

Apply_update_overdue_statuses ==
    /\ probe.pc < 2
    /\ probe' = Stepped("update",
                    [probe.inst EXCEPT !.status = update_overdue_statuses(
                        probe.inst.status, probe.inst.end_date,
                        probe.inst.overdue_grace_months, probe.today)])
    /\ UNCHANGED storeVars

Apply_save ==
    /\ probe.pc < 2
    /\ probe' = Stepped("save", save(probe.inst, promos, probe.today * TicksPerDay))
    /\ UNCHANGED storeVars

NextStatus == Apply_update_overdue_statuses \/ Apply_save

SpecStatus == InitStatus /\ [][NextStatus]_vars

(***************************************************************************)
(* SpecPrice: Rental.recalc_prices applied to a rental of each box, with   *)
(* no promo code or a promo code of every discount, window and active flag *)
(* of the input sets, at every clock value.                                *)
(***************************************************************************)
DiscountInputs == 1..90

PromoRows ==
    [discount_percent : DiscountInputs, starts_at : 0..MaxNow, ends_at : 0..MaxNow,
     is_active : BOOLEAN]

PriceProbes ==
    {[pc |-> 0, t |-> t, table |-> [k \in PromoCodes |-> p],
      inst |-> [Filled(Rental("u1", b, 0)) EXCEPT !.promo_code = c]] :
        t \in 0..MaxNow, p \in PromoRows, b \in Boxes, c \in PromoCodes \cup {None}}

InitPrice == StoreInit /\ probe \in PriceProbes

Apply_recalc_prices ==
    /\ probe.pc = 0
    /\ probe' = [probe EXCEPT !.pc = 1,
                              !.inst = recalc_prices(probe.inst, probe.table, probe.t)]
    /\ UNCHANGED storeVars

NextPrice == Apply_recalc_prices

SpecPrice == InitPrice /\ [][NextPrice]_vars

(***************************************************************************)
(* SpecBox: Box.price_per_month of a box of every three sides from 0.01 m  *)
(* to MaxDim * 0.01 m.                                                     *)
(***************************************************************************)
BoxProbes ==
    {[pc |-> 0, dims |-> <<l, w, h>>, price |-> 0] :
        l \in 1..MaxDim, w \in 1..MaxDim, h \in 1..MaxDim}

InitBox == StoreInit /\ probe \in BoxProbes

Apply_price_per_month ==
    /\ probe.pc = 0
    /\ probe' = [probe EXCEPT !.pc = 1, !.price = price_per_month(probe.dims)]
    /\ UNCHANGED storeVars

NextBox == Apply_price_per_month

SpecBox == InitBox /\ [][NextBox]_vars

(***************************************************************************)
(* SpecListing: the minimum price of a listing of no box, of one box, or   *)
(* of two: a box of every three sides from 0.01 m to MaxDim * 0.01 m, and  *)
(* a box of the sizes of ListingBoxes.                                     *)
(***************************************************************************)
ListingBoxes == {BoxDims(b) : b \in Boxes} \cup {<<111, 111, 111>>, <<150, 150, 250>>}

ListingProbes ==
    {[pc |-> 0, boxes |-> bs, min_price |-> None] :
        bs \in {<<>>}
               \cup {<<d>> : d \in ListingBoxes}
               \cup {<<<<l, w, h>>>> : l \in 1..MaxDim, w \in 1..MaxDim, h \in 1..MaxDim}
               \cup {<<<<l, w, h>>, d>> : l \in 1..MaxDim, w \in 1..MaxDim,
                                          h \in 1..MaxDim, d \in ListingBoxes}}

InitListing == StoreInit /\ probe \in ListingProbes

Apply_min_price ==
    /\ probe.pc = 0
    /\ probe' = [probe EXCEPT !.pc = 1, !.min_price = min_price(probe.boxes)]
    /\ UNCHANGED storeVars

NextListing == Apply_min_price

SpecListing == InitListing /\ [][NextListing]_vars

(***************************************************************************)
(*                              The claims                                 *)
(***************************************************************************)
Today == localdate(now)
Pks == 1..Len(rentals)

(* f is x / d rounded to an integer, a tie going to the even neighbour     *)
(* (d even).                                                               *)
Rounded(f, x, d) ==
    /\ 2 * (f * d - x) \in -d..d
    /\ (2 * (f * d - x) \in {-d, d}) => f % 2 = 0

RoundedHundredth(f, x) == Rounded(f, x, 100)

(* C1: no box has more than one rental whose status is active or overdue. *)
C1_OneBusyRentalPerBox ==
    \A b \in Boxes :
        Cardinality({k \in Pks : rentals[k].box = b /\ rentals[k].status \in Busy}) <= 1

(* C2: every persisted rental has personal_data_consent true and a consent *)
(* document.                                                               *)
C2_ConsentPersisted ==
    \A k \in Pks :
        rentals[k].personal_data_consent /\ rentals[k].consent_document # None

(* The status C3 gives for end date D, grace of 180 days, at date today. *)
C3_Expected(D, today) ==
    IF today <= D THEN ACTIVE ELSE IF today <= D + 180 THEN OVERDUE ELSE LOST

C3_Case ==
    /\ probe.pc = 1
    /\ probe.ops = <<"update">>
    /\ probe.inst.overdue_grace_months = 6
    /\ probe.inst.end_date # NoDate

(* C3 as stated: with grace 6 and end date D, update_overdue_statuses      *)
(* leaves a rental that was not closed active for today <= D, overdue for  *)
(* D < today <= D + 180, lost for today > D + 180, whatever its status was. *)
C3_Original ==
    (C3_Case /\ probe.before # CLOSED) =>
        probe.inst.status = C3_Expected(probe.inst.end_date, probe.today)

(* C3 amended: that holds of a rental that was active; a rental that was   *)
(* overdue stays overdue for today <= D + 180 (also for today <= D) and    *)
(* becomes lost after, and a rental that was lost stays lost.              *)
C3_StatusByDate ==
    C3_Case =>
        LET D == probe.inst.end_date
        IN  /\ probe.before = ACTIVE => probe.inst.status = C3_Expected(D, probe.today)
            /\ probe.before = OVERDUE =>
                  probe.inst.status = IF probe.today <= D + 180 THEN OVERDUE ELSE LOST
            /\ probe.before = LOST => probe.inst.status = LOST

C3_Witness ==
    /\ C3_Case
    /\ probe.before = ACTIVE
    /\ probe.today = probe.inst.end_date + 181
    /\ probe.inst.status = LOST

(* C4: no rental that is not closed is stored active with today past its   *)
(* end date, or stored overdue with today past its grace window.           *)
C4_StoredStatusFollowsDate ==
    \A k \in Pks :
        /\ rentals[k].status = ACTIVE => Today <= rentals[k].end_date
        /\ rentals[k].status = OVERDUE =>
              Today <= rentals[k].end_date
                          + DAYS_PER_GRACE_MONTH * rentals[k].overdue_grace_months

(* C5: a save or status-transition step leaves a closed or lost rental's   *)
(* status as it was, for every date, end date and grace.                   *)
C5_TerminalStatusKept ==
    (probe.pc >= 1 /\ probe.before \in {CLOSED, LOST}) =>
        probe.inst.status = probe.before

C5_Witness ==
    /\ probe.pc >= 1
    /\ probe.before = CLOSED
    /\ probe.inst.end_date # NoDate
    /\ probe.today > probe.inst.end_date
                        + DAYS_PER_GRACE_MONTH * probe.inst.overdue_grace_months
    /\ probe.inst.status = CLOSED

(* C6: the status-transition step applied twice at the same date gives the *)
(* status it gives applied once.                                           *)
C6_Idempotent ==
    (probe.pc = 2 /\ probe.ops[1] = probe.ops[2]) => probe.inst.status = probe.first

C6_Witness ==
    /\ probe.pc = 2
    /\ probe.ops = <<"update", "update">>
    /\ probe.init = ACTIVE
    /\ probe.first = OVERDUE
    /\ probe.inst.status = OVERDUE

(* The row a step has just created. *)
Created == rentals'[Len(rentals')]

C8_PriceRoundedOnce ==
    probe.pc = 1 =>
        Rounded(probe.price,
                probe.dims[1] * probe.dims[2] * probe.dims[3] * PRICE_PER_M3_PER_MONTH,
                1000000)

(* C9: recalc_prices sets the final price to base x (1 - percent / 100)    *)
(* rounded to two decimals when the rental has a promo code that is active *)
(* with starts_at <= now <= ends_at, and to the base price otherwise.      *)
C9_FinalPrice ==
    probe.pc = 1 =>
        LET r == probe.inst
            p == probe.table["SALE15"]
            valid == /\ r.promo_code # None
                     /\ p.is_active
                     /\ p.starts_at <= probe.t
                     /\ probe.t <= p.ends_at
        IN  IF valid
            THEN RoundedHundredth(r.final_price_per_month,
                     r.base_price_per_month * (100 - p.discount_percent))
            ELSE r.final_price_per_month = r.base_price_per_month

C9_Witness ==
    /\ probe.pc = 1
    /\ probe.inst.promo_code = "SALE15"
    /\ probe.table["SALE15"].discount_percent = 15
    /\ probe.t = probe.table["SALE15"].ends_at
    /\ probe.inst.base_price_per_month = 750
    /\ probe.inst.final_price_per_month = 638

(* Row k's stored prices and status agree with the promo code's validity   *)
(* at the present clock and with the present date.                         *)
C10_Consistent(k) ==
    LET r == rentals[k]
        valid == /\ r.promo_code # None
                 /\ promos[r.promo_code].is_active
                 /\ promos[r.promo_code].starts_at <= now
                 /\ now <= promos[r.promo_code].ends_at
        percent == IF valid THEN promos[r.promo_code].discount_percent ELSE 0
    IN  /\ RoundedHundredth(r.final_price_per_month,
                            r.base_price_per_month * (100 - percent))
        /\ r.status = ACTIVE => Today <= r.end_date
        /\ r.status = OVERDUE => Today <= r.end_date + 30 * r.overdue_grace_months

(* C10 as stated: in every reachable state every rental's final price is   *)
(* its base price less the discount of its promo code if that is valid now *)
(* (rounded to two decimals), and its status agrees with the date.         *)
C10_Original == \A k \in Pks : C10_Consistent(k)

(* C10 amended: that holds of a rental in the state a save of it leaves    *)
(* (every step that writes the row); between saves the stored price is not *)
(* refreshed when the promo code expires or is switched off or on.         *)
C10_ConsistentWhenSaved ==
    [][\A k \in 1..Len(rentals') :
          (k > Len(rentals) \/ rentals'[k] # rentals[k]) => C10_Consistent(k)']_vars

C10_Witness ==
    \E k \in Pks :
        /\ rentals[k].promo_code = "SALE15"
        /\ rentals[k].base_price_per_month = 750
        /\ rentals[k].final_price_per_month = 638
        /\ is_valid_now(promos["SALE15"], now)

(* C11: every persisted rental has 0 <= final_price_per_month <=           *)
(* base_price_per_month, and the final price is not below a tenth of the   *)
(* base price (to the rounding of 0.01): the discount applied is never     *)
(* negative and never above 90%.                                           *)
C11_FinalWithinBase ==
    \A k \in Pks :
        /\ 0 <= rentals[k].final_price_per_month
        /\ rentals[k].final_price_per_month <= rentals[k].base_price_per_month
        /\ rentals[k].base_price_per_month <= 10 * rentals[k].final_price_per_month + 5

C11_Witness ==
    \E k \in Pks :
        /\ rentals[k].promo_code = "SALE15"
        /\ promos["SALE15"].discount_percent = 90
        /\ rentals[k].base_price_per_month = 600000
        /\ rentals[k].final_price_per_month = 60000

Rows == 1..Len(emails)
ONE_SHOT_KINDS == {"before_30", "before_14", "before_7", "before_3", "overdue_info"}

(* C12: after any sequence of invocations of the job, on the same day or   *)
(* on different days, with the rental's end date and status changed in     *)
(* between, the log holds at most one row per rental and kind for each of  *)
(* the kinds before_30, before_14, before_7, before_3 and overdue_info.    *)
C12_OneShotKindsOnce ==
    \A i, j \in Rows :
        (/\ emails[i].rental = emails[j].rental
         /\ emails[i].kind = emails[j].kind
         /\ emails[i].kind \in ONE_SHOT_KINDS) => i = j

(* The rental has its before_3 row and, its end date moved to later than   *)
(* the add form gave, is again active and three days from its end.         *)
C12_Witness ==
    \E i \in Rows :
        /\ emails[i].kind = "before_3"
        /\ rentals[emails[i].rental].status = ACTIVE
        /\ rentals[emails[i].rental].end_date = Today + 3
        /\ rentals[emails[i].rental].end_date > rentals[emails[i].rental].start_date + 4

(* A step of the job: the daily run, or a run by hand that creates rows.   *)
(* The rows it creates are NewRows; the run was cut short when one of them *)
(* was not delivered.                                                      *)
JobStep == now' # now \/ emails' # emails
NewRows == (Len(emails) + 1)..Len(emails')
Undelivered == {j \in NewRows : j \notin outbox'}

(* The condition C13 gives for rental pk and a before_N rule, at the date  *)
(* of the invocation and with the log as the invocation finds it.          *)
C13_Due(pk, rule) ==
    /\ rentals[pk].status = ACTIVE
    /\ rentals[pk].end_date = Today' + rule.days
    /\ UserEmail(rentals[pk].user) # ""
    /\ ~\E j \in Rows : emails[j].rental = pk /\ emails[j].kind = rule.kind

C13_Creates(pk, rule) ==
    \E j \in NewRows : emails'[j].rental = pk /\ emails'[j].kind = rule.kind

(* C13 as stated: an invocation creates a before_N row for a rental if and *)
(* only if the rental is stored active, ends N days from today, its user   *)
(* has an e-mail address and the log has no row of that kind for it.       *)
C13_Original ==
    [][JobStep => \A pk \in Pks : \A n \in 1..Len(BEFORE_RULES) :
          C13_Creates(pk, BEFORE_RULES[n]) <=> C13_Due(pk, BEFORE_RULES[n])]_vars

(* C13 amended: only if in every invocation (so a rental stored overdue,   *)
(* closed or lost gets no pre-expiry reminder); if unless send_mail raised *)
(* for a pre-expiry reminder of the same invocation, which ends it.        *)
C13_BeforeEndRule ==
    [][JobStep => \A pk \in Pks : \A n \in 1..Len(BEFORE_RULES) :
          /\ C13_Creates(pk, BEFORE_RULES[n]) => C13_Due(pk, BEFORE_RULES[n])
          /\ C13_Due(pk, BEFORE_RULES[n]) =>
                \/ C13_Creates(pk, BEFORE_RULES[n])
                \/ \E j \in Undelivered : emails'[j].kind \in BEFORE_KINDS]_vars

(* The job has run today: the active rental that ends in 30 days has its   *)
(* reminder, the closed one that ends in 30 days has none.                 *)
C13_Witness ==
    /\ Len(rentals) = 2
    /\ rentals[1].status = CLOSED /\ rentals[1].end_date = Today + 30
    /\ rentals[2].status = ACTIVE /\ rentals[2].end_date = Today + 30
    /\ Len(emails) = 1
    /\ emails[1].rental = 2 /\ emails[1].kind = "before_30"
    /\ outbox = {1}

(* The overdue_monthly rows a step creates for rental pk. *)
NewMonthly(pk) ==
    {j \in NewRows : emails'[j].rental = pk /\ emails'[j].kind = OVERDUE_MONTHLY}

(* C14: the job creates an overdue_monthly row for a rental only when the  *)
(* rental is stored overdue and days_overdue = today - end_date is         *)
(* positive and a multiple of 30, and the row carries month_index =        *)
(* days_overdue / 30; so runs on day 59 and day 61 create none.  A run on  *)
(* day 60 for an overdue rental whose user has an e-mail address, with no  *)
(* month-2 row in the log and no delivery failing before the rule reaches  *)
(* the rental, creates exactly one such row, with month_index 2.           *)
C14_MonthlyOnBoundary ==
    [][JobStep => \A pk \in Pks :
          LET days_overdue == Today' - rentals[pk].end_date
          IN  /\ \A j \in NewMonthly(pk) :
                    /\ rentals[pk].status = OVERDUE
                    /\ days_overdue > 0
                    /\ days_overdue % 30 = 0
                    /\ emails'[j].subject = <<OVERDUE_MONTHLY, days_overdue \div 30>>
              /\ days_overdue \in {59, 61} => NewMonthly(pk) = {}
              /\ (/\ days_overdue = 60
                  /\ rentals[pk].status = OVERDUE
                  /\ UserEmail(rentals[pk].user) # ""
                  /\ ~\E j \in Rows : /\ emails[j].rental = pk
                                       /\ emails[j].subject = <<OVERDUE_MONTHLY, 2>>
                  /\ \A j \in Undelivered : emails'[j].kind = OVERDUE_MONTHLY)
                 => /\ Cardinality(NewMonthly(pk)) = 1
                    /\ \A j \in NewMonthly(pk) :
                          emails'[j].subject = <<OVERDUE_MONTHLY, 2>>]_vars

(* Day 61: the job has run on day 60 and on day 61, and the log holds one  *)
(* overdue_monthly row, of day 60 and month 2.                             *)
C14_Witness ==
    /\ Len(rentals) = 1
    /\ rentals[1].status = OVERDUE
    /\ Today - rentals[1].end_date = 61
    /\ \E j \in Rows :
          /\ emails[j].subject = <<OVERDUE_MONTHLY, 2>>
          /\ \A k \in Rows : emails[k].kind = OVERDUE_MONTHLY => k = j

(* C15: after any sequence of invocations of the job the log holds at most *)
(* one overdue_monthly row per rental and month_index, also when the job   *)
(* is run again on the boundary day and when the end date is moved so that *)
(* the same month_index comes again.                                       *)
C15_MonthlyOncePerIndex ==
    \A i, j \in Rows :
        (/\ emails[i].kind = OVERDUE_MONTHLY
         /\ emails[j].kind = OVERDUE_MONTHLY
         /\ emails[i].rental = emails[j].rental
         /\ emails[i].subject = emails[j].subject) => i = j

(* The rental has its month-1 row and, its end date moved to later than    *)
(* the add form gave, is again 30 days overdue today.                      *)
C15_Witness ==
    \E i \in Rows :
        /\ emails[i].subject = <<OVERDUE_MONTHLY, 1>>
        /\ rentals[emails[i].rental].status = OVERDUE
        /\ Today - rentals[emails[i].rental].end_date = 30
        /\ rentals[emails[i].rental].end_date > rentals[emails[i].rental].start_date + 71

(* C16: when the job runs at the start of every day and a run's deliveries *)
(* all succeed, then after the run of day end_date + 30k (k >= 1) the log  *)
(* holds an overdue_monthly row with month_index k for every rental that   *)
(* is stored overdue on that day and whose user has an e-mail address.     *)
C16_MonthlyEveryBoundary ==
    [][(now' # now /\ Undelivered = {}) => \A pk \in Pks :
          LET days_overdue == Today' - rentals[pk].end_date
          IN  (/\ rentals[pk].status = OVERDUE
               /\ UserEmail(rentals[pk].user) # ""
               /\ days_overdue >= 30
               /\ days_overdue % 30 = 0)
              => \E j \in 1..Len(emails') :
                    /\ emails'[j].rental = pk
                    /\ emails'[j].kind = OVERDUE_MONTHLY
                    /\ emails'[j].subject = <<OVERDUE_MONTHLY, days_overdue \div 30>>]_vars

(* The daily run of today has served the first boundary: the rental, its   *)
(* end date as the add form gave it, is 30 days overdue and its month-1    *)
(* row is in the log, delivered.                                           *)
C16_Witness ==
    \E pk \in Pks : \E j \in Rows :
        /\ rentals[pk].status = OVERDUE
        /\ Today - rentals[pk].end_date = 30
        /\ emails[j].rental = pk
        /\ emails[j].subject = <<OVERDUE_MONTHLY, 1>>
        /\ rentals[pk].end_date = rentals[pk].start_date + 71
        /\ Today >= 1
        /\ j \in outbox

(* The place of a kind in the order the job serves them. *)
KindRank(kind) ==
    CASE kind = "before_30" -> 1 [] kind = "before_14" -> 2 [] kind = "before_7" -> 3
      [] kind = "before_3" -> 4 [] kind = OVERDUE_INFO -> 5 [] kind = OVERDUE_MONTHLY -> 6

(* C17: when send_mail raises for an item the invocation ends there: the   *)
(* item's row is in the log with is_sent true, it is the last row of the   *)
(* invocation (the rows before it, of earlier rules and of newer rentals,  *)
(* were delivered; no later rental and no later rule is served), and no    *)
(* later invocation delivers it or creates a second row for it.            *)
C17_AbortAtFailedItem ==
    [][/\ Undelivered # {} =>
             /\ Undelivered = {Len(emails')}
             /\ emails'[Len(emails')].is_sent
             /\ \A j \in NewRows : \A k \in NewRows :
                   j < k => \/ KindRank(emails'[j].kind) < KindRank(emails'[k].kind)
                            \/ /\ emails'[j].kind = emails'[k].kind
                               /\ emails'[j].rental > emails'[k].rental
       /\ \A j \in Rows \ outbox :
             /\ j \notin outbox'
             /\ emails'[j] = emails[j]
             /\ \A k \in NewRows :
                   ~(/\ emails'[k].rental = emails[j].rental
                     /\ emails'[k].subject = emails[j].subject)]_vars

(* Delivery has just failed for the newer of two rentals that end in 30    *)
(* days: its row is in the log, undelivered, and the older rental, which   *)
(* was due in the same invocation, has no row.                             *)
C17_Witness ==
    /\ Len(rentals) = 2
    /\ \A pk \in Pks : /\ rentals[pk].status = ACTIVE
                        /\ rentals[pk].end_date = Today + 30
                        /\ UserEmail(rentals[pk].user) # ""
    /\ Len(emails) = 1
    /\ emails[1].rental = 2 /\ emails[1].kind = "before_30" /\ emails[1].is_sent
    /\ outbox = {}

(* Rental pk is in the queryset of a before_N rule at the invocation. *)
C18_Selected(pk, rule) ==
    /\ rentals[pk].status = ACTIVE
    /\ rentals[pk].end_date = Today' + rule.days
    /\ ~\E j \in Rows : emails[j].rental = pk /\ emails[j].kind = rule.kind

ToSet(seq) == {seq[i] : i \in 1..Len(seq)}

(* The rows and the mails of a run of the three rules in the order of      *)
(* handle, with every delivery succeeding, at the clock of the step.       *)
C19_FullRun == ToSet(RunRules(HANDLE_ORDER, emails, now'))
C19_SameAsFullRun ==
    /\ {emails'[j] : j \in NewRows} = C19_FullRun
    /\ {emails'[j] : j \in NewRows \cap outbox'} = C19_FullRun
    /\ \A j \in Rows : emails'[j] = emails[j]

(* C19 as stated: every invocation runs all three rules, and in whatever   *)
(* order they are called it creates the same rows and sends the same       *)
(* mails.                                                                  *)
C19_Original == [][now' # now => C19_SameAsFullRun]_vars

(* C19 amended: that holds of the invocations in which no send_mail        *)
(* raises; one that raises ends the invocation, and which rules and        *)
(* rentals were served by then depends on the order.                       *)
C19_OrderInsignificant ==
    [][(now' # now /\ Undelivered = {}) => C19_SameAsFullRun]_vars

(* The rules were called in another order than handle's, overdue-monthly  *)
(* before overdue-info, and both rows of the rental that is a month        *)
(* overdue are in the log, delivered.                                      *)
C19_Witness ==
    /\ probe.order # HANDLE_ORDER
    /\ \E i, j \in Rows :
          /\ i < j
          /\ emails[i].kind = OVERDUE_MONTHLY
          /\ emails[j].kind = OVERDUE_INFO
          /\ emails[i].rental = emails[j].rental
          /\ {i, j} \subseteq outbox

(* C20: the notification log is append-only: a step leaves every row of    *)
(* the log as it was, and the rows it adds are rows of _create_and_send    *)
(* (is_sent true).                                                         *)
C20_AppendOnly ==
    [][/\ Len(emails') >= Len(emails)
       /\ \A j \in Rows : emails'[j] = emails[j]
       /\ \A j \in NewRows : emails'[j].is_sent]_vars

(* C21: an invocation of the job leaves every rental and every promo code  *)
(* as it was (no stored status, end date or price is changed or refreshed, *)
(* also when the date has passed the rental's end); it only appends rows   *)
(* to the log and hands mails of rows it has just created to the           *)
(* transport.                                                              *)
C21_JobLeavesStoreAlone ==
    [][JobStep =>
          /\ rentals' = rentals
          /\ promos' = promos
          /\ Len(emails') >= Len(emails)
          /\ \A j \in Rows : emails'[j] = emails[j]
          /\ outbox \subseteq outbox'
          /\ outbox' \ outbox \subseteq NewRows]_vars

(* The daily job has run on a day past the end date of a rental stored     *)
(* active, and the rental is stored active still.                          *)
C21_Witness ==
    \E pk \in Pks :
        /\ rentals[pk].status = ACTIVE
        /\ rentals[pk].end_date < Today
        /\ Today >= 1

(* C22: no persisted rental has pickup_from_home true and an empty         *)
(* pickup_address, whichever way it was created.                           *)
C22_PickupAddressPersisted ==
    \A k \in Pks : rentals[k].pickup_from_home => rentals[k].pickup_address # ""

(* C23: every persisted rental has an end date, and it is not before the   *)
(* start date: a rental saved with the end date left blank has it set to   *)
(* start_date + 30 days by save, and a form whose end date is before the   *)
(* start date is rejected and writes nothing.                              *)
C23_EndDateNotBeforeStart ==
    \A k \in Pks :
        /\ rentals[k].end_date # NoDate
        /\ rentals[k].end_date >= rentals[k].start_date

(* A rental entered with a start date 31 days ago and the end date left    *)
(* blank is stored with the end date 30 days after its start.              *)
C23_Witness ==
    \E k \in Pks :
        /\ rentals[k].start_date = Today - 31
        /\ rentals[k].end_date = rentals[k].start_date + DEFAULT_RENTAL_DAYS

(* C24: however the steps of two concurrent creations for the same free    *)
(* box interleave (each its admission check, then its save), at most one   *)
(* of them ends up persisted active or overdue: no two stored rentals of   *)
(* one box are both active or overdue.                                     *)
C24_NoDoubleBooking ==
    \A j, k \in Pks :
        (j # k /\ rentals[j].box = rentals[k].box) =>
            ~(rentals[j].status \in Busy /\ rentals[k].status \in Busy)

(* Rental pk is stored active, its user has an e-mail address, its end     *)
(* date has passed, and a daily run is still to come.                      *)
C25_Passed(pk) ==
    /\ pk \in Pks
    /\ rentals[pk].status = ACTIVE
    /\ UserEmail(rentals[pk].user) # ""
    /\ rentals[pk].end_date < Today
    /\ Today < MaxDay

(* C25: when the job runs every day and nothing else touches the rental,   *)
(* every rental that is active, with a user e-mail address, and whose end  *)
(* date has passed eventually has an overdue_info row.                     *)
C25_EventuallyOverdueInfo ==
    \A pk \in 1..MaxDated : C25_Passed(pk) ~> AlreadySent(emails, pk, OVERDUE_INFO)

(* Why the row never comes, on the days of the model and on every later    *)
(* day: a step creates an overdue_info row only for a rental stored        *)
(* overdue, and a step of the job leaves the stored status as it is.       *)
C25_InfoOnlyForStoredOverdue ==
    [][/\ \A j \in NewRows :
             emails'[j].kind = OVERDUE_INFO => rentals[emails'[j].rental].status = OVERDUE
       /\ now' # now => rentals' = rentals]_vars

(* C26: every overdue_monthly row of a rental has a month_index of at most *)
(* the rental's overdue_grace_months: no monthly reminder is created for a *)
(* rental that is past its grace window.                                   *)
C26_MonthlyWithinGrace ==
    \A j \in Rows :
        emails[j].kind = OVERDUE_MONTHLY =>
            emails[j].subject[2] <= rentals[emails[j].rental].overdue_grace_months

(* C27: a save or status-transition step moves a rental only forward along *)
(* active -> overdue -> lost: an overdue rental is overdue or lost after   *)
(* the step, never active, also when its end date is later than today; a   *)
(* lost or closed rental keeps its status; an active rental is not closed  *)
(* by the step.                                                            *)
C27_StatusMonotone ==
    probe.pc >= 1 =>
        /\ probe.before = ACTIVE => probe.inst.status \in {ACTIVE, OVERDUE, LOST}
        /\ probe.before = OVERDUE => probe.inst.status \in {OVERDUE, LOST}
        /\ probe.before \in {LOST, CLOSED} => probe.inst.status = probe.before

(* An overdue rental whose end date is later than today has been saved and *)
(* is overdue still.                                                       *)
C27_Witness ==
    /\ probe.pc = 1
    /\ probe.ops = <<"save">>
    /\ probe.before = OVERDUE
    /\ probe.inst.end_date # NoDate
    /\ probe.today < probe.inst.end_date
    /\ probe.inst.status = OVERDUE

(* C28: the minimum monthly price a listing view shows for a set of boxes  *)
(* is the minimum of Box.price_per_month over the same boxes.              *)
C28_ListingMinIsModelMin ==
    (probe.pc = 1 /\ probe.boxes # <<>>) =>
        /\ \E i \in 1..Len(probe.boxes) : probe.min_price = price_per_month(probe.boxes[i])
        /\ \A i \in 1..Len(probe.boxes) : probe.min_price <= price_per_month(probe.boxes[i])

(* C29: however the statements of two invocations of the job that overlap  *)
(* on one day interleave, the log never holds two rows of the same rental  *)
(* and one-shot kind, nor two overdue_monthly rows of the same rental and  *)
(* month_index.                                                            *)
C29_NoDuplicateRows ==
    \A i, j \in Rows :
        (/\ i # j
         /\ emails[i].rental = emails[j].rental
         /\ emails[i].kind = emails[j].kind)
        => /\ emails[i].kind \notin ONE_SHOT_KINDS
           /\ emails[i].kind = OVERDUE_MONTHLY => emails[i].subject # emails[j].subject

(* C30 as stated: a rental submitted through rent_box with a promo code    *)
(* that is not valid at submission never has a final price below its base  *)
(* price, whatever is saved later.                                         *)
C30_Original ==
    \A k \in Pks : rentals[k].final_price_per_month >= rentals[k].base_price_per_month

(* C30 amended: such a rental is persisted at the undiscounted price with  *)
(* the promo code attached, and every later save of it gives the final     *)
(* price below the base price exactly when the code is valid at that save. *)
C30_DiscountWhenValidAtSave ==
    [][\A k \in 1..Len(rentals') :
          (k > Len(rentals) \/ rentals'[k] # rentals[k]) =>
              /\ rentals'[k].promo_code = "SALE15"
              /\ k > Len(rentals) =>
                    rentals'[k].final_price_per_month = rentals'[k].base_price_per_month
              /\ rentals'[k].final_price_per_month < rentals'[k].base_price_per_month
                    <=> is_valid_now(promos'["SALE15"], now')]_vars

(* A rental booked while the code was not valid has been saved after the   *)
(* code was switched on, and is stored at the discounted price.            *)
C30_Witness ==
    \E k \in Pks :
        /\ rentals[k].promo_code = "SALE15"
        /\ rentals[k].base_price_per_month = 600000
        /\ rentals[k].final_price_per_month = 510000

====
